---- MODULE Spec2Model ----
(***************************************************************************)
(* Model of the dentist appointment booking agent (src/app.py,            *)
(* src/excel_io.py): the Excel-backed ledger with its /check and /book     *)
(* handlers, and the /nlu slot-filling turn.                               *)
(*                                                                         *)
(* Python strings are sequences of one-character strings, so that the      *)
(* sanitizers, the tokenizer and the time parser are computed as the code  *)
(* computes them.  A local of the code that is read several times is the   *)
(* parameter of a helper operator (check_with for check, and so on), which *)
(* keeps the expression TLC evaluates small.                               *)
(***************************************************************************)
EXTENDS Integers, Sequences, FiniteSets, TLC

(***************************************************************************)
(* Characters.  Ascii lists the characters the model uses in code-point    *)
(* order, which is the order Python compares strings in.                   *)
(***************************************************************************)
Ascii ==
    << " ", "-", ".",
       "0", "1", "2", "3", "4", "5", "6", "7", "8", "9", ":",
       "A", "B", "C", "D", "E", "F", "G", "H", "I", "J", "K", "L", "M",
       "N", "O", "P", "Q", "R", "S", "T", "U", "V", "W", "X", "Y", "Z",
       "a", "b", "c", "d", "e", "f", "g", "h", "i", "j", "k", "l", "m",
       "n", "o", "p", "q", "r", "s", "t", "u", "v", "w", "x", "y", "z" >>

\* the place of a character in a list of characters
OrdIn(chars, c) == CHOOSE i \in DOMAIN chars : chars[i] = c

Ord(c) == OrdIn(Ascii, c)

\* chars[lo..hi] as a set
CharsBetween(chars, lo, hi) == { chars[i] : i \in lo..hi }

DigitChars == CharsBetween(Ascii, 4, 13)

UpperChars == CharsBetween(Ascii, 15, 40)

LowerChars == CharsBetween(Ascii, 41, 66)

IsSpace(c) == c = " "

IsLetter(c) == c \in UpperChars \/ c \in LowerChars

\* \w of the regular expressions: letters and digits (no underscore in Ascii)
IsWord(c) == IsLetter(c) \/ c \in DigitChars

\* the character n places after c
Shifted(chars, c, n) == chars[OrdIn(chars, c) + n]

\* str.lower() and str.upper() on one character
LowerChar(c) == IF c \in UpperChars THEN Shifted(Ascii, c, 26) ELSE c

UpperChar(c) == IF c \in LowerChars THEN Shifted(Ascii, c, -26) ELSE c

\* int() of a digit
DigitVal(c) == Ord(c) - 4

\* the digit character of 0..9
DigitChar(n) == Ascii[n + 4]

\* int() of a digit string
RECURSIVE StrToInt(_)
StrToInt(s) ==
    IF s = << >> THEN 0
    ELSE 10 * StrToInt(SubSeq(s, 1, Len(s) - 1)) + DigitVal(s[Len(s)])

AllDigits(s) == \A i \in DOMAIN s : s[i] \in DigitChars

\* Python's < on strings: lexicographic by code point
RECURSIVE StrLess(_, _)
StrLess(a, b) ==
    IF b = << >> THEN FALSE
    ELSE IF a = << >> THEN TRUE
    ELSE IF a[1] # b[1] THEN Ord(a[1]) < Ord(b[1])
    ELSE StrLess(Tail(a), Tail(b))

\* str.strip()
RECURSIVE LStrip(_)
LStrip(s) == IF s # << >> /\ IsSpace(s[1]) THEN LStrip(Tail(s)) ELSE s

RECURSIVE RStrip(_)
RStrip(s) ==
    IF s # << >> /\ IsSpace(s[Len(s)])
    THEN RStrip(SubSeq(s, 1, Len(s) - 1))
    ELSE s

Strip(s) == RStrip(LStrip(s))

\* the word collected so far, as a list of zero or one words
Word(cur) == IF cur = << >> THEN << >> ELSE << cur >>

\* str.split(): the maximal runs of non-whitespace characters
RECURSIVE SplitFrom(_, _)
SplitFrom(s, cur) ==
    IF s = << >> THEN Word(cur)
    ELSE IF IsSpace(s[1])
         THEN Word(cur) \o SplitFrom(Tail(s), << >>)
         ELSE SplitFrom(Tail(s), Append(cur, s[1]))

Split(s) == SplitFrom(s, << >>)

\* " ".join(words)
RECURSIVE JoinSpace(_)
JoinSpace(ws) ==
    IF ws = << >> THEN << >>
    ELSE IF Len(ws) = 1 THEN ws[1]
    ELSE ws[1] \o << " " >> \o JoinSpace(Tail(ws))

\* str.startswith
StartsWith(s, p) == Len(p) <= Len(s) /\ SubSeq(s, 1, Len(p)) = p

Range(f) == { f[i] : i \in DOMAIN f }

(***************************************************************************)
(* String literals and numbers of the program.                             *)
(***************************************************************************)
DrJesanAhmed ==
    << "D", "r", ".", " ", "J", "e", "s", "a", "n", " ", "A", "h", "m", "e", "d" >>

DrHasanRahman ==
    << "D", "r", ".", " ", "H", "a", "s", "a", "n", " ", "R", "a", "h", "m", "a", "n" >>

DrGregoryHouse ==
    << "D", "r", ".", " ", "G", "r", "e", "g", "o", "r", "y", " ", "H", "o", "u", "s", "e" >>

\* excel_io.DOCTORS
DOCTORS == << DrJesanAhmed, DrHasanRahman, DrGregoryHouse >>

T1400 == << "1", "4", ":", "0", "0" >>

T2359 == << "2", "3", ":", "5", "9" >>

Confirmed == << "c", "o", "n", "f", "i", "r", "m", "e", "d" >>

\* 60*60 seconds of _overlaps, in minutes
SlotMinutes == 60

\* clean_phone keeps a number of at least this many digits
MinPhoneDigits == 8

\* the difflib ratio choose_doctor accepts, in hundredths (0.72)
SimilarityPercent == 72

\* choose_doctor ignores the user tokens shorter than this
MinTokenLen == 3

(***************************************************************************)
(* excel_io.py: the workbook.  A workbook is its ordered sheet names and,  *)
(* per sheet, the data rows below the header row.                          *)
(***************************************************************************)
NoFile == [exists |-> FALSE, sheetnames |-> << >>, rows |-> << >>]

\* ensure_workbook_with_doctors: the file afterwards
ensure_workbook_with_doctors(f) ==
    IF f.exists THEN f
    ELSE [exists |-> TRUE,
          sheetnames |-> DOCTORS,
          rows |-> [d \in Range(DOCTORS) |-> << >>]]

list_doctors(f) == ensure_workbook_with_doctors(f).sheetnames

\* the hour and minute fields of "%H:%M": one or two digits, in range
FieldsOk(hh, mm) ==
    /\ Len(hh) \in {1, 2} /\ Len(mm) \in {1, 2}
    /\ AllDigits(hh) /\ AllDigits(mm)
    /\ StrToInt(hh) <= 23 /\ StrToInt(mm) <= 59

Minutes(hh, mm) == IF FieldsOk(hh, mm) THEN 60 * StrToInt(hh) + StrToInt(mm) ELSE -1

\* s split at its colon, at place k
MinutesAt(s, k) == Minutes(SubSeq(s, 1, k - 1), SubSeq(s, k + 1, Len(s)))

Colons(s) == { i \in DOMAIN s : s[i] = ":" }

\* datetime.strptime(s, "%H:%M") as minutes after midnight; -1 when it raises
_parse_hhmm(s) ==
    IF Cardinality(Colons(s)) # 1 THEN -1
    ELSE MinutesAt(s, CHOOSE i \in DOMAIN s : s[i] = ":")

Abs(x) == IF x < 0 THEN -x ELSE x

\* line 38 with <= in place of <
OverlapsUpTo(t1, t2, a, b) ==
    IF a >= 0 /\ b >= 0
    THEN Abs(a - b) <= SlotMinutes
    ELSE t1 = t2

\* _overlaps once both strings went through _parse_hhmm
OverlapsParsed(t1, t2, a, b) ==
    IF a >= 0 /\ b >= 0
    THEN Abs(a - b) < SlotMinutes
    ELSE t1 = t2

\* _overlaps with line 38 comparing the two times for equality only
overlaps_same_start(t1, t2) == t1 = t2

_overlaps(t1, t2) == OverlapsParsed(t1, t2, _parse_hhmm(t1), _parse_hhmm(t2))

\* line 47 with the upper bound left out
HoursBefore(t) ==
    IF t < 0 THEN FALSE
    ELSE _parse_hhmm(T1400) <= t /\ t < _parse_hhmm(T2359)

\* within_hours once the string went through _parse_hhmm
HoursParsed(t) ==
    IF t < 0 THEN FALSE
    ELSE _parse_hhmm(T1400) <= t /\ t <= _parse_hhmm(T2359)

within_hours(time_str) == HoursParsed(_parse_hhmm(time_str))

doctor_exists(f, name) == name \in Range(list_doctors(f))

\* line 63 without the comparison of the dates
NoOverlapAnyDate(rows, date_str, time_str) ==
    \A i \in DOMAIN rows : ~ _overlaps(rows[i].time, time_str)

\* the loop of slot_available over the rows of the doctor's sheet
NoOverlap(rows, date_str, time_str) ==
    \A i \in DOMAIN rows :
        ~ (rows[i].date = date_str /\ _overlaps(rows[i].time, time_str))

\* slot_available on the workbook it loaded
SlotFree(wb, doctor, date_str, time_str) ==
    IF doctor \notin Range(wb.sheetnames) THEN FALSE
    ELSE NoOverlap(wb.rows[doctor], date_str, time_str)

slot_available(f, doctor, date_str, time_str) ==
    SlotFree(ensure_workbook_with_doctors(f), doctor, date_str, time_str)

\* wb.create_sheet(title=doctor) when the doctor has no sheet
WithSheet(wb, doctor) ==
    IF doctor \notin Range(wb.sheetnames)
    THEN [wb EXCEPT !.sheetnames = Append(@, doctor),
                    !.rows = (doctor :> << >>) @@ @]
    ELSE wb

\* ws.append(row)
WithRow(wb, doctor, row) == [wb EXCEPT !.rows[doctor] = Append(@, row)]

\* append_booking up to wb.save: the workbook in memory with the row added
append_booking(f, doctor, row) ==
    WithRow(WithSheet(ensure_workbook_with_doctors(f), doctor), doctor, row)

(***************************************************************************)
(* app.py: the entity resolver.                                            *)
(***************************************************************************)
\* "dr" at i, after a word boundary
AtDr(s, i) ==
    /\ i + 1 <= Len(s)
    /\ s[i] = "d" /\ s[i + 1] = "r"
    /\ (i = 1 \/ ~ IsWord(s[i - 1]))

\* "dr." and then a word boundary: a word character follows the dot
DrDot(s, i) == i + 3 <= Len(s) /\ s[i + 2] = "." /\ IsWord(s[i + 3])

\* "dr" and then a word boundary: the end, or a non-word character
DrBare(s, i) == i + 2 > Len(s) \/ ~ IsWord(s[i + 2])

\* re.sub(r"\bdr\.?\b", "", s) on a lower-cased string, scanning from i
RECURSIVE DropDr(_, _)
DropDr(s, i) ==
    IF i > Len(s) THEN << >>
    ELSE IF AtDr(s, i) /\ DrDot(s, i) THEN DropDr(s, i + 3)
    ELSE IF AtDr(s, i) /\ DrBare(s, i) THEN DropDr(s, i + 2)
    ELSE << s[i] >> \o DropDr(s, i + 1)

LowerStr(s) == [i \in DOMAIN s |-> LowerChar(s[i])]

NormChar(c) == IF c \in LowerChars \/ c \in DigitChars \/ IsSpace(c) THEN c ELSE " "

\* re.sub(r"[^a-z0-9\s]", " ", s)
NoPunct(s) == [i \in DOMAIN s |-> NormChar(s[i])]

\* _norm without the re.sub of lines 64 and 65
norm_lower_only(s) ==
    IF s = << >> THEN << >>
    ELSE JoinSpace(Split(LowerStr(s)))

\* lower, drop "dr", drop punctuation, collapse whitespace and strip
_norm(s) ==
    IF s = << >> THEN << >>
    ELSE JoinSpace(Split(NoPunct(DropDr(LowerStr(s), 1))))

_tokens(s) == Split(_norm(s))

(***************************************************************************)
(* difflib.SequenceMatcher(None, a, b).ratio() = 2*M/T, where M is the     *)
(* total size of the matching blocks (no junk, strings under 200).         *)
(***************************************************************************)
\* length of the common run of a from i and b from j
RECURSIVE RunLen(_, _, _, _)
RunLen(a, b, i, j) ==
    IF i <= Len(a) /\ j <= Len(b) /\ a[i] = b[j]
    THEN 1 + RunLen(a, b, i + 1, j + 1)
    ELSE 0

Runs(a, b) == [p \in (DOMAIN a) \X (DOMAIN b) |-> RunLen(a, b, p[1], p[2])]

LongestRun(runs) == CHOOSE n \in Range(runs) : \A p \in DOMAIN runs : runs[p] <= n

\* the earliest place in a where a run of length k starts
EarliestInA(runs, k) ==
    CHOOSE p \in DOMAIN runs :
        runs[p] = k /\ \A q \in DOMAIN runs : runs[q] = k => p[1] <= q[1]

\* the earliest place in b where a run of length k starts at i in a
EarliestInB(runs, k, i) ==
    CHOOSE p \in DOMAIN runs :
        /\ runs[p] = k /\ p[1] = i
        /\ \A q \in DOMAIN runs : (runs[q] = k /\ q[1] = i) => p[2] <= q[2]

BlockOf(p, k) == [i |-> p[1], j |-> p[2], k |-> k]

BlockAt(runs, k) == BlockOf(EarliestInB(runs, k, EarliestInA(runs, k)[1]), k)

LongestIn(runs) == BlockAt(runs, LongestRun(runs))

\* find_longest_match: the longest block, the earliest in a, then earliest in b
LongestMatch(a, b) ==
    IF a = << >> \/ b = << >> THEN [i |-> 1, j |-> 1, k |-> 0]
    ELSE LongestIn(Runs(a, b))

\* get_matching_blocks: the sum of the block sizes, around the longest block m
RECURSIVE MatchSize(_, _)
MatchAround(a, b, m) ==
    IF m.k = 0 THEN 0
    ELSE m.k
         + MatchSize(SubSeq(a, 1, m.i - 1), SubSeq(b, 1, m.j - 1))
         + MatchSize(SubSeq(a, m.i + m.k, Len(a)), SubSeq(b, m.j + m.k, Len(b)))

MatchSize(a, b) == MatchAround(a, b, LongestMatch(a, b))

\* ratio() as the fraction num/den (1.0 when both strings are empty)
Ratio(a, b) ==
    IF Len(a) + Len(b) = 0 THEN [num |-> 1, den |-> 1]
    ELSE [num |-> 2 * MatchSize(a, b), den |-> Len(a) + Len(b)]

RatioLess(r1, r2) == r1.num * r2.den < r2.num * r1.den

\* the least name of a set, in string order
LeastName(S) == CHOOSE x \in S : \A y \in S \ {x} : StrLess(x, y)

RestAfter(S, x) == S \ {x}

\* sorted(names): ascending
RECURSIVE SortNames(_)
SortFrom(S, least) == << least >> \o SortNames(RestAfter(S, least))

SortNames(S) == IF S = { } THEN << >> ELSE SortFrom(S, LeastName(S))

NoMatch == [tag |-> "none"]

Resolved(name) == [tag |-> "resolved", name |-> name]

Ambiguous(choices) == [tag |-> "ambiguous", choices |-> choices]

\* the (ratio, doc) tuples of line 111
Scored(nu, options) == [doc \in Range(options) |-> Ratio(nu, _norm(doc))]

\* (ratio, doc) tuple order: by ratio, then by name
ScoredLess(scored, e, d) ==
    \/ RatioLess(scored[e], scored[d])
    \/ ~ RatioLess(scored[d], scored[e]) /\ StrLess(e, d)

\* scored.sort(reverse=True); scored[0]
Best(scored) ==
    CHOOSE d \in DOMAIN scored :
        \A e \in DOMAIN scored : e # d => ScoredLess(scored, e, d)

\* best >= 0.72
Accept(best, name) ==
    IF best.num * 100 >= SimilarityPercent * best.den THEN Resolved(name) ELSE NoMatch

AcceptAt(scored, name) == Accept(scored[name], name)

\* the similarity fallback of choose_doctor (lines 109-117)
SimilarityFallback(user_text, options) ==
    AcceptAt(Scored(_norm(user_text), options), Best(Scored(_norm(user_text), options)))

\* the user tokens of line 94
UserToks(user_text) ==
    SelectSeq(_tokens(user_text), LAMBDA t : Len(t) >= MinTokenLen)

\* tok2docs, read as the tokens of each doctor
DocToks(options) == [doc \in Range(options) |-> Range(_tokens(doc))]

\* line 100 with "ut in tok" in place of tok.startswith(ut)
HitsAnywhere(doc_toks, ut) ==
    { doc \in DOMAIN doc_toks :
        \E tok \in doc_toks[doc] :
            \E i \in 0..(Len(tok) - Len(ut)) : SubSeq(tok, i + 1, i + Len(ut)) = ut }

\* line 100: the doctors with a token that starts with the user token
Hits(doc_toks, ut) ==
    { doc \in DOMAIN doc_toks : \E tok \in doc_toks[doc] : StartsWith(tok, ut) }

Matches(doc_toks, user_toks) == UNION { Hits(doc_toks, ut) : ut \in Range(user_toks) }

\* lines 96-117, on the user tokens and the matches they gave
Decide(user_text, options, user_toks, matches) ==
    IF user_toks # << >> /\ Cardinality(matches) = 1
    THEN Resolved(CHOOSE d \in matches : TRUE)
    ELSE IF user_toks # << >> /\ Cardinality(matches) > 1
    THEN Ambiguous(SubSeq(SortNames(matches), 1, 2))
    ELSE SimilarityFallback(user_text, options)

DecideToks(user_text, options, user_toks) ==
    Decide(user_text, options, user_toks, Matches(DocToks(options), user_toks))

\* choose_doctor with options = list_doctors()
choose_doctor(user_text, options) ==
    IF user_text = << >> THEN NoMatch
    ELSE DecideToks(user_text, options, UserToks(user_text))

\* the doctor texts the requests of the model carry, as the handlers pass them
\* to choose_doctor
DoctorTexts ==
    Range(DOCTORS) \cup
    { << "j", "e", "s", "a", "n" >>,
      << "a", "h", "m", "e", "d", " ", "h", "a", "s", "a", "n" >>,
      << "x", "y", "z" >>,
      << "D", "r", " ", "A", "h", "m", "e", "d" >>,
      << "j", "e", "s", "s", "a", "n", " ", "a", "h", "m", "m", "e", "d" >>,
      << " " >> }

\* choose_doctor over the startup roster, computed once for the model's texts
ResolverTable == [t \in DoctorTexts |-> choose_doctor(t, DOCTORS)]

\* the value of choose_doctor(user_text, options)
choose_doctor_of(user_text, options) ==
    IF options = DOCTORS /\ user_text \in DoctorTexts
    THEN ResolverTable[user_text]
    ELSE choose_doctor(user_text, options)

(***************************************************************************)
(* app.py: sanitizers, the temporal normalizer, the next prompt.           *)
(***************************************************************************)
\* str.title(): a letter after a letter is lower-cased, any other letter upper-cased
Title(s) ==
    [i \in DOMAIN s |->
        IF i > 1 /\ IsLetter(s[i - 1]) THEN LowerChar(s[i]) ELSE UpperChar(s[i])]

\* re.sub(r"[^a-zA-Z\s\-]", "", s)
NameChars(s) == SelectSeq(s, LAMBDA c : IsLetter(c) \/ IsSpace(c) \/ c = "-")

clean_name(s) == IF s = << >> THEN << >> ELSE Title(Strip(NameChars(s)))

\* re.sub(r"\D", "", s)
OnlyDigits(s) == SelectSeq(s, LAMBDA c : c \in DigitChars)

AtLeast8(digits) == IF Len(digits) >= MinPhoneDigits THEN digits ELSE << >>

clean_phone(s) == AtLeast8(OnlyDigits(s))

\* "%02d"
TwoDigits(n) == << DigitChar(n \div 10), DigitChar(n % 10) >>

NoDateTime == [ok |-> FALSE]

\* "YYYY-MM-DD", with a month of the year and a day every month has
IsIsoDate(d) ==
    /\ Len(d) = 10
    /\ d[5] = "-" /\ d[8] = "-"
    /\ \A i \in {1, 2, 3, 4, 6, 7, 9, 10} : d[i] \in DigitChars
    /\ StrToInt(SubSeq(d, 6, 7)) \in 1..12
    /\ StrToInt(SubSeq(d, 9, 10)) \in 1..28

ParsedDate(d, minutes) ==
    [ok |-> TRUE,
     year |-> SubSeq(d, 1, 4),
     month |-> StrToInt(SubSeq(d, 6, 7)),
     day |-> StrToInt(SubSeq(d, 9, 10)),
     minutes |-> minutes]

ParseParts(parts) ==
    IF Len(parts) = 2 /\ IsIsoDate(parts[1]) /\ _parse_hhmm(parts[2]) >= 0
    THEN ParsedDate(parts[1], _parse_hhmm(parts[2]))
    ELSE NoDateTime

\* dateparser.parse(text) for the texts "YYYY-MM-DD HH:MM"; every other text of
\* the model's requests is one the parser does not understand (None)
dateparser_parse(text) == ParseParts(Split(text))

\* dt.strftime("%Y-%m-%d")
FormatDate(dt) ==
    dt.year \o << "-" >> \o TwoDigits(dt.month) \o << "-" >> \o TwoDigits(dt.day)

\* dt.strftime("%H:%M")
FormatTime(dt) == TwoDigits(dt.minutes \div 60) \o << ":" >> \o TwoDigits(dt.minutes % 60)

Formatted(dt) ==
    IF ~ dt.ok THEN NoDateTime
    ELSE [ok |-> TRUE, date |-> FormatDate(dt), time |-> FormatTime(dt)]

\* normalize: (date_str, time_str), or no result for (None, None)
normalize(date_text, time_text) ==
    Formatted(dateparser_parse(date_text \o << " " >> \o time_text))

SlotOrder == << "doctor", "name", "phone", "service", "date_text", "time_text" >>

Question ==
    [doctor |-> "Which doctor would you like to book with?",
     name |-> "What is your name?",
     phone |-> "What is your phone number? Please say at least 8 digits.",
     service |-> "What service do you need?",
     date_text |-> "What date would you like to schedule your appointment?",
     time_text |-> "What time would you like to schedule your appointment?"]

ConfirmQuestion == "Great-shall I proceed to book this appointment?"

\* a prompt is its text and the names it is formatted with
Prompt(text) == [text |-> text, names |-> << >>]

\* the slots whose value is empty once stripped
Missing(filled) == { i \in DOMAIN SlotOrder : Strip(filled[SlotOrder[i]]) = << >> }

\* the loop of lines 184-187 returning at the last missing slot
LastOf(missing) == SlotOrder[CHOOSE i \in missing : \A j \in missing : i >= j]

FirstOf(missing) == SlotOrder[CHOOSE i \in missing : \A j \in missing : i <= j]

QuestionFor(missing) ==
    IF missing = { } THEN Prompt(ConfirmQuestion) ELSE Prompt(Question[FirstOf(missing)])

next_missing_question(filled) == QuestionFor(Missing(filled))

(***************************************************************************)
(* app.py: /check and /book.  A response is the JSON body and the HTTP     *)
(* status; reason is "" where the body has no reason key, and doctor, date *)
(* and time are the values the body or its message carries.                *)
(***************************************************************************)
Response(ok, status, reason, message, doctor, date, time) ==
    [ok |-> ok, status |-> status, reason |-> reason, message |-> message,
     doctor |-> doctor, date |-> date, time |-> time]

Rejected(status, reason, message) ==
    Response(FALSE, status, reason, message, << >>, << >>, << >>)

\* choose_doctor(doctor_raw) if doctor_raw else (None, None)
ResolveRaw(f, doctor_raw) ==
    IF doctor_raw # << >> THEN choose_doctor_of(doctor_raw, list_doctors(f)) ELSE NoMatch

\* canon or doctor_raw
CanonOrRaw(res, doctor_raw) == IF res.tag = "resolved" THEN res.name ELSE doctor_raw

\* check with the availability test of lines 313-318 moved before the
\* working-hours test of lines 306-311
check_with_overlap_first(f, doctor_raw, res, dt) ==
    IF res.tag = "ambiguous"
    THEN Rejected(200, "ambiguous-doctor", "Did you mean {} or {}?")
    ELSE IF ~ doctor_exists(f, CanonOrRaw(res, doctor_raw))
    THEN Rejected(200, "unknown-doctor", "Doctor not found. Available: {}")
    ELSE IF ~ dt.ok
    THEN Rejected(200, "bad-datetime",
                  "Sorry, I couldn't understand that date and time.")
    ELSE IF ~ slot_available(f, CanonOrRaw(res, doctor_raw), dt.date, dt.time)
    THEN Rejected(200, "overlap",
                  "That time is already booked. Please choose another time or another date.")
    ELSE IF ~ within_hours(dt.time)
    THEN Rejected(200, "outside-hours",
                  "Our doctors are available 14:00 to 23:59. Please choose a time in that range.")
    ELSE Response(TRUE, 200, "", "", CanonOrRaw(res, doctor_raw), dt.date, dt.time)

\* lines 283-320 of check, on the resolver's result and normalize's
check_with(f, doctor_raw, res, dt) ==
    IF res.tag = "ambiguous"
    THEN Rejected(200, "ambiguous-doctor", "Did you mean {} or {}?")
    ELSE IF ~ doctor_exists(f, CanonOrRaw(res, doctor_raw))
    THEN Rejected(200, "unknown-doctor", "Doctor not found. Available: {}")
    ELSE IF ~ dt.ok
    THEN Rejected(200, "bad-datetime",
                  "Sorry, I couldn't understand that date and time.")
    ELSE IF ~ within_hours(dt.time)
    THEN Rejected(200, "outside-hours",
                  "Our doctors are available 14:00 to 23:59. Please choose a time in that range.")
    ELSE IF ~ slot_available(f, CanonOrRaw(res, doctor_raw), dt.date, dt.time)
    THEN Rejected(200, "overlap",
                  "That time is already booked. Please choose another time or another date.")
    ELSE Response(TRUE, 200, "", "", CanonOrRaw(res, doctor_raw), dt.date, dt.time)

check_stripped(f, doctor_raw, date_text, time_text) ==
    check_with(f, doctor_raw, ResolveRaw(f, doctor_raw), normalize(date_text, time_text))

\* the /check handler: its response
check(f, body) ==
    check_stripped(f, Strip(body.doctor), Strip(body.date_text), Strip(body.time_text))

\* lines 333-357 of book without the working-hours test of lines 347-351
book_with_any_hour(f, doctor_raw, res, dt) ==
    IF res.tag = "ambiguous"
    THEN Rejected(400, "", "Did you mean {} or {}?")
    ELSE IF ~ doctor_exists(f, CanonOrRaw(res, doctor_raw))
    THEN Rejected(400, "", "Doctor not found. Available: {}")
    ELSE IF ~ dt.ok
    THEN Rejected(400, "", "Invalid date/time.")
    ELSE IF ~ slot_available(f, CanonOrRaw(res, doctor_raw), dt.date, dt.time)
    THEN Rejected(409, "", "That time is already booked. Please choose another.")
    ELSE Response(TRUE, 200, "", "Booked with {} on {} at {}.",
                  CanonOrRaw(res, doctor_raw), dt.date, dt.time)

\* lines 333-357 of book, on the resolver's result and normalize's
book_with(f, doctor_raw, res, dt) ==
    IF res.tag = "ambiguous"
    THEN Rejected(400, "", "Did you mean {} or {}?")
    ELSE IF ~ doctor_exists(f, CanonOrRaw(res, doctor_raw))
    THEN Rejected(400, "", "Doctor not found. Available: {}")
    ELSE IF ~ dt.ok
    THEN Rejected(400, "", "Invalid date/time.")
    ELSE IF ~ within_hours(dt.time)
    THEN Rejected(400, "", "Doctors are available 14:00-23:59 only.")
    ELSE IF ~ slot_available(f, CanonOrRaw(res, doctor_raw), dt.date, dt.time)
    THEN Rejected(409, "", "That time is already booked. Please choose another.")
    ELSE Response(TRUE, 200, "", "Booked with {} on {} at {}.",
                  CanonOrRaw(res, doctor_raw), dt.date, dt.time)

book_stripped(f, doctor_raw, date_text, time_text) ==
    book_with(f, doctor_raw, ResolveRaw(f, doctor_raw), normalize(date_text, time_text))

\* the /book handler up to the append (lines 324-357): the rejection, or the
\* response with the doctor, date and time it goes on to append
book_validate(f, body) ==
    book_stripped(f, Strip(body.doctor), Strip(body.date_text), Strip(body.time_text))

\* the row of lines 362-369 with the phone as the request gave it
book_row_raw_phone(body, v) ==
    [date |-> v.date,
     time |-> v.time,
     patient_name |-> Strip(body.name),
     service |-> Strip(body.service),
     phone |-> Strip(body.phone),
     status |-> Confirmed]

\* the row /book hands to append_booking (lines 362-369)
book_row(body, v) ==
    [date |-> v.date,
     time |-> v.time,
     patient_name |-> Strip(body.name),
     service |-> Strip(body.service),
     phone |-> clean_phone(body.phone),
     status |-> Confirmed]

\* line 361 passing doctor_raw in place of doctor
book_file_raw(f, body, v) ==
    IF v.ok THEN append_booking(f, Strip(body.doctor), book_row(body, v)) ELSE f

\* the file after /book: the row appended and saved when the request passed
book_file(f, body, v) ==
    IF v.ok THEN append_booking(f, v.doctor, book_row(body, v)) ELSE f

(***************************************************************************)
(* app.py: /nlu.  ext is what the extraction call gave: kind "ok" with the *)
(* parsed JSON (filled, next_question, ready), or kind "fail" when the     *)
(* call or json.loads raised.                                              *)
(***************************************************************************)
SorryQuestion == "Sorry, could you repeat that?"

DidYouMean(choices) == [text |-> "Did you mean {} or {}?", names |-> choices]

NotInClinic(doctors) ==
    [text |-> "Sorry, that doctor is not in our clinic. Available doctors: {}. Which doctor would you like?",
     names |-> doctors]

PhoneReprompt == Prompt("Please say your phone number with at least 8 digits.")

Reply(filled, next_question, ready) ==
    [filled |-> filled, next_question |-> next_question, ready |-> ready]

\* line 268 reading the keys "date" and "time"
all_ok_other_keys(filled) ==
    \A k \in {"doctor", "name", "phone", "service", "date", "time"} :
        k \in DOMAIN filled /\ Strip(filled[k]) # << >>

\* all(...) of line 268
all_ok(filled) == \A i \in DOMAIN SlotOrder : Strip(filled[SlotOrder[i]]) # << >>

\* lines 258-271 without lines 267-269: the extraction's question and ready
\* flag are returned as they came
nlu_finish_as_extracted(data) ==
    IF data.filled.phone # << >> /\ Len(data.filled.phone) < MinPhoneDigits
    THEN Reply([data.filled EXCEPT !.phone = << >>], PhoneReprompt, FALSE)
    ELSE Reply(data.filled, data.next_question, data.ready)

\* lines 258-271: the phone guard, then the next missing field
nlu_finish(data) ==
    IF data.filled.phone # << >> /\ Len(data.filled.phone) < MinPhoneDigits
    THEN Reply([data.filled EXCEPT !.phone = << >>], PhoneReprompt, FALSE)
    ELSE Reply(data.filled, next_missing_question(data.filled), all_ok(data.filled))

\* lines 247-256 left out: no final guard on the doctor
nlu_guard_absent(f, data) == nlu_finish(data)

\* lines 247-256: the final guard on the doctor
nlu_guard(f, data) ==
    IF data.filled.doctor # << >> /\ ~ doctor_exists(f, data.filled.doctor)
    THEN Reply([data.filled EXCEPT !.doctor = << >>], NotInClinic(list_doctors(f)), FALSE)
    ELSE nlu_finish(data)

\* lines 239-245 without the return of line 245
nlu_resolved_no_return(f, data, res) ==
    IF res.tag = "resolved"
    THEN nlu_guard(f, [data EXCEPT !.filled.doctor = res.name])
    ELSE IF res.tag = "ambiguous"
    THEN nlu_guard(f, Reply([data.filled EXCEPT !.doctor = << >>], DidYouMean(res.choices), FALSE))
    ELSE nlu_guard(f, data)

\* lines 239-245, on the result of choose_doctor
nlu_resolved(f, data, res) ==
    IF res.tag = "resolved"
    THEN nlu_guard(f, [data EXCEPT !.filled.doctor = res.name])
    ELSE IF res.tag = "ambiguous"
    THEN Reply([data.filled EXCEPT !.doctor = << >>], DidYouMean(res.choices), FALSE)
    ELSE nlu_guard(f, data)

\* lines 235-256: the doctor is mapped to its canonical name, or the turn ends
nlu_doctor(f, data) == nlu_resolved(f, data, ResolveRaw(f, data.filled.doctor))

\* lines 227-229
nlu_name(data) ==
    IF data.filled.name # << >> THEN [data EXCEPT !.filled.name = clean_name(@)] ELSE data

\* lines 231-233
nlu_phone(data) ==
    IF data.filled.phone # << >> THEN [data EXCEPT !.filled.phone = clean_phone(@)] ELSE data

\* lines 199-225 with a fallback that starts from an empty state
nlu_data_reset(body_filled, ext) ==
    IF ext.kind = "ok"
    THEN Reply(ext.filled, ext.next_question, ext.ready)
    ELSE Reply([s \in DOMAIN body_filled |-> << >>], Prompt(SorryQuestion), FALSE)

\* lines 199-225: the extraction's JSON, or the fallback on the incoming state
nlu_data(body_filled, ext) ==
    IF ext.kind = "ok"
    THEN Reply(ext.filled, ext.next_question, ext.ready)
    ELSE Reply([body_filled EXCEPT !.phone = clean_phone(@)], Prompt(SorryQuestion), FALSE)

\* the /nlu handler: its response
nlu(f, body_filled, ext) == nlu_doctor(f, nlu_phone(nlu_name(nlu_data(body_filled, ext))))

(***************************************************************************)
(* State.                                                                  *)
(***************************************************************************)
VARIABLES
    file,      \* bookings_dentist.xlsx
    last,      \* the /check or /book request being answered, and its response
    pc,        \* concurrent /book: where each worker process is in the handler
    req,       \* concurrent /book: the request body each worker is handling
    loc,       \* concurrent /book: each worker's locals (validated values, wb)
    done,      \* concurrent /book: the requests answered, with their responses
    client,    \* the dialogue state the frontend holds and sends with each turn
    trusted,   \* client is the empty state or a state /nlu returned
    nlu_ext,   \* what the extraction call gave in the /nlu turn being answered
    nlu_out,   \* the response of that turn, until the frontend has stored it
    arg,       \* a function called on its own: the arguments of the call
    val        \* a function called on its own: the value it returned

vars == << file, last, pc, req, loc, done, client, trusted, nlu_ext, nlu_out, arg, val >>

concVars == << pc, req, loc, done >>

nluVars == << client, trusted, nlu_ext, nlu_out >>

fnVars == << arg, val >>

(***************************************************************************)
(* Bounds, and the inputs the requests are drawn from.                     *)
(***************************************************************************)
\* /book requests are sent while the ledger holds fewer rows than this
MaxRows == 2

DoctorInputs ==
    { << >>,
      << "j", "e", "s", "a", "n" >>,
      << "D", "r", ".", " ", "H", "a", "s", "a", "n", " ", "R", "a", "h", "m", "a", "n" >>,
      << "a", "h", "m", "e", "d", " ", "h", "a", "s", "a", "n" >>,
      << "x", "y", "z" >> }

DateInputs ==
    { << "2", "0", "2", "5", "-", "0", "3", "-", "0", "1" >>,
      << "2", "0", "2", "5", "-", "0", "3", "-", "0", "2" >>,
      << "s", "o", "m", "e", "d", "a", "y" >> }

TimeInputs ==
    { << "1", "4", ":", "0", "0" >>,
      << " ", "1", "4", ":", "1", "0" >>,
      << "1", "5", ":", "0", "0" >>,
      << "1", "3", ":", "3", "0" >>,
      << "1", "2", ":", "0", "0" >>,
      << "s", "o", "o", "n" >> }

NameInputs ==
    { << " ", "a", "l", " " >> }

PhoneInputs ==
    { << "1", "2", " ", "3", "4" >>,
      << "0", "1", "2", "3", "-", "4", "5", "6", "7" >> }

ServiceInputs ==
    { << "x" >> }

Body(op, doctor, name, phone, service, date_text, time_text) ==
    [op |-> op, doctor |-> doctor, name |-> name, phone |-> phone,
     service |-> service, date_text |-> date_text, time_text |-> time_text]

CheckBodies ==
    { Body("check", b[1], << >>, << >>, << >>, b[2], b[3]) :
        b \in DoctorInputs \X DateInputs \X TimeInputs }

BookBodies ==
    { Body("book", b[1], b[2], b[3], b[4], b[5], b[6]) :
        b \in DoctorInputs \X NameInputs \X PhoneInputs \X ServiceInputs
              \X DateInputs \X TimeInputs }

NoBody == Body("none", << >>, << >>, << >>, << >>, << >>, << >>)

NoResponse == Rejected(0, "", "")

NoLast == [req |-> NoBody, resp |-> NoResponse]

\* the number of rows of the sheets S
RECURSIVE RowsIn(_, _)
RowsIn(f, S) ==
    IF S = { } THEN 0
    ELSE Len(f.rows[CHOOSE y \in S : TRUE]) + RowsIn(f, S \ {CHOOSE y \in S : TRUE})

RowCount(f) == RowsIn(f, DOMAIN f.rows)

EmptyState ==
    [doctor |-> << >>, name |-> << >>, phone |-> << >>,
     service |-> << >>, date_text |-> << >>, time_text |-> << >>]

NoExt == [kind |-> "none", filled |-> EmptyState,
          next_question |-> Prompt(""), ready |-> FALSE]

NoReply == Reply(EmptyState, Prompt(""), FALSE)

NoLocals == [v |-> NoResponse, wb |-> NoFile]

Workers == {1, 2}

\* /book requests received by the worker processes
MaxConcRequests == 3

ConcDoctorInputs ==
    { << "j", "e", "s", "a", "n" >>,
      << "D", "r", ".", " ", "H", "a", "s", "a", "n", " ", "R", "a", "h", "m", "a", "n" >> }

ConcDateInputs ==
    { << "2", "0", "2", "5", "-", "0", "3", "-", "0", "1" >> }

ConcTimeInputs ==
    { << "1", "4", ":", "0", "0" >>,
      << "1", "4", ":", "1", "0" >>,
      << "1", "5", ":", "0", "0" >> }

ConcNameInputs ==
    { << "a", "l" >>,
      << "b", "o" >> }

ConcBodies ==
    { Body("book", b[1], b[2], b[3], b[4], b[5], b[6]) :
        b \in ConcDoctorInputs \X ConcNameInputs \X {<< "0", "1", "2", "3", "-", "4", "5", "6", "7" >>}
              \X ServiceInputs \X ConcDateInputs \X ConcTimeInputs }

\* the values a slot holds in the extraction's JSON
NluDoctors ==
    { << >>,
      << "D", "r", " ", "A", "h", "m", "e", "d" >>,
      << "a", "h", "m", "e", "d", " ", "h", "a", "s", "a", "n" >>,
      << "x", "y", "z" >>,
      << "j", "e", "s", "s", "a", "n", " ", "a", "h", "m", "m", "e", "d" >> }

NluNames ==
    { << >>,
      << "a", "l", " ", "7" >> }

NluPhones ==
    { << >>,
      << "1", "2", " ", "3", "4" >>,
      << "0", "1", "2", "3", "-", "4", "5", "6", "7" >> }

NluServices ==
    { << >>,
      << " " >>,
      << "x" >> }

NluDates ==
    { << >>,
      << "f", "r", "i" >> }

NluTimes ==
    { << >>,
      << "5", "p", "m" >> }

State(doctor, name, phone, service, date_text, time_text) ==
    [doctor |-> doctor, name |-> name, phone |-> phone,
     service |-> service, date_text |-> date_text, time_text |-> time_text]

NluStates ==
    { State(b[1], b[2], b[3], b[4], b[5], b[6]) :
        b \in NluDoctors \X NluNames \X NluPhones \X NluServices \X NluDates \X NluTimes }

\* the question the extraction proposes
ProposedQuestion == "Anything else?"

\* what the extraction call gives: parsed JSON, or a failure
Extractions ==
    { [kind |-> "ok", filled |-> st, next_question |-> Prompt(q), ready |-> r] :
        st \in NluStates, q \in {ProposedQuestion}, r \in BOOLEAN }
    \cup { [kind |-> "fail", filled |-> State(<< >>, << >>, << >>, << >>, << >>, << >>),
            next_question |-> Prompt(""), ready |-> FALSE] }

\* a dialogue state with the six slots filled and valid
FullState ==
    State(DrGregoryHouse, << "A", "l" >>, << "0", "1", "2", "3", "4", "5", "6", "7" >>, << "x" >>, << "f", "r", "i" >>, << "5", "p", "m" >>)

\* dialogue states a frontend sends that no /nlu turn returned
ForeignStates ==
    { [FullState EXCEPT !.doctor = d] : d \in NluDoctors }
    \cup { [FullState EXCEPT !.phone = ph] : ph \in NluPhones }
    \cup { [FullState EXCEPT !.name = n] : n \in NluNames \cup { << "7" >> } }
    \cup { [FullState EXCEPT !.service = sv] : sv \in NluServices }
    \cup { State(<< "x", "y", "z" >>, << "7" >>, << "1", "2", " ", "3", "4" >>, << >>, << >>, << >>) }

(***************************************************************************)
(* Init: the server has started (_init_file has created the workbook), no  *)
(* request has been received, the dialogue is at its start.                *)
(***************************************************************************)
\* no function has been called on its own
NoArg == [fn |-> "none"]

NoVal == [fn |-> "none"]

\* no request is being handled
Idle ==
    /\ last = NoLast
    /\ pc = [w \in Workers |-> "idle"]
    /\ req = [w \in Workers |-> NoBody]
    /\ loc = [w \in Workers |-> NoLocals]
    /\ done = << >>
    /\ client = EmptyState
    /\ trusted = TRUE
    /\ nlu_ext = NoExt
    /\ nlu_out = NoReply

\* the server as the startup hook leaves it
Started ==
    /\ file = ensure_workbook_with_doctors(NoFile)
    /\ Idle

Init ==
    /\ Started
    /\ arg = NoArg
    /\ val = NoVal

(***************************************************************************)
(* /check and /book, one request at a time: a request is handled from its  *)
(* first line to its response before the next one arrives.                 *)
(***************************************************************************)
Check(body) ==
    /\ last = NoLast
    /\ last' = [req |-> body, resp |-> check(file, body)]
    /\ file' = file
    /\ UNCHANGED << fnVars, concVars, nluVars >>

\* /book with v the outcome of its validation
BookWith(body, v) ==
    /\ last' = [req |-> body, resp |-> v]
    /\ file' = book_file(file, body, v)

Book(body) ==
    /\ last = NoLast
    /\ RowCount(file) < MaxRows
    /\ BookWith(body, book_validate(file, body))
    /\ UNCHANGED << fnVars, concVars, nluVars >>

\* the response has reached the client; the server waits for the next request
Deliver ==
    /\ last # NoLast
    /\ last' = NoLast
    /\ UNCHANGED << fnVars, file, concVars, nluVars >>

Next ==
    \/ \E body \in CheckBodies : Check(body)
    \/ \E body \in BookBodies : Book(body)
    \/ Deliver

Spec == Init /\ [][Next]_vars

(***************************************************************************)
(* /book handled by several worker processes that share the file.  Each    *)
(* worker runs the handler in order; the steps are its accesses to the     *)
(* file: load_workbook in slot_available (with the checks before it),      *)
(* load_workbook in append_booking, wb.save.                               *)
(***************************************************************************)
InFlight == { w \in Workers : pc[w] # "idle" }

Answer(w, resp) == Append(done, [w |-> w, req |-> req[w], resp |-> resp])

\* lines 324-357: the request is validated against the file as it is now
BookValidated(w, body, v) ==
    /\ req' = [req EXCEPT ![w] = body]
    /\ IF v.ok
       THEN /\ pc' = [pc EXCEPT ![w] = "append"]
            /\ loc' = [loc EXCEPT ![w].v = v]
            /\ done' = done
       ELSE /\ pc' = pc
            /\ loc' = loc
            /\ done' = Append(done, [w |-> w, req |-> body, resp |-> v])

BookCheck(w, body) ==
    /\ pc[w] = "idle"
    /\ Len(done) + Cardinality(InFlight) < MaxConcRequests
    /\ BookValidated(w, body, book_validate(file, body))
    /\ UNCHANGED << fnVars, file, last, nluVars >>

\* append_booking lines 69-83: the workbook is loaded and the row added in memory
BookLoad(w) ==
    /\ pc[w] = "append"
    /\ loc' = [loc EXCEPT ![w].wb =
                  append_booking(file, loc[w].v.doctor, book_row(req[w], loc[w].v))]
    /\ pc' = [pc EXCEPT ![w] = "save"]
    /\ UNCHANGED << fnVars, file, last, req, done, nluVars >>

\* append_booking line 84 and the response of line 371
BookSave(w) ==
    /\ pc[w] = "save"
    /\ file' = loc[w].wb
    /\ done' = Answer(w, loc[w].v)
    /\ pc' = [pc EXCEPT ![w] = "idle"]
    /\ loc' = [loc EXCEPT ![w] = NoLocals]
    /\ req' = [req EXCEPT ![w] = NoBody]
    /\ UNCHANGED << fnVars, last, nluVars >>

NextConc ==
    \/ \E w \in Workers : \E body \in ConcBodies : BookCheck(w, body)
    \/ \E w \in Workers : BookLoad(w)
    \/ \E w \in Workers : BookSave(w)

SpecConc == Init /\ [][NextConc]_vars

(***************************************************************************)
(* /nlu: the frontend sends its dialogue state, the handler answers, the   *)
(* frontend stores the state of the answer.                                *)
(***************************************************************************)
NluTurn(ext) ==
    /\ nlu_ext = NoExt
    /\ nlu_ext' = ext
    /\ nlu_out' = nlu(file, client, ext)
    /\ UNCHANGED << fnVars, file, last, concVars, client, trusted >>

\* the frontend keeps the returned state for the next turn
Store ==
    /\ nlu_ext # NoExt
    /\ client' = nlu_out.filled
    /\ trusted' = TRUE
    /\ nlu_ext' = NoExt
    /\ nlu_out' = NoReply
    /\ UNCHANGED << fnVars, file, last, concVars >>

\* a frontend sends a state of its own making
Foreign(st) ==
    /\ nlu_ext = NoExt
    /\ client' = st
    /\ trusted' = FALSE
    /\ UNCHANGED << fnVars, file, last, concVars, nlu_ext, nlu_out >>

NextNlu ==
    \/ \E ext \in Extractions : NluTurn(ext)
    \/ Store
    \/ \E st \in ForeignStates : Foreign(st)

SpecNlu == Init /\ [][NextNlu]_vars

(***************************************************************************)
(* choose_doctor called on its own, on a fragment and the sheet names of a *)
(* workbook.                                                               *)
(***************************************************************************)
\* a roster where three names have a token that starts with "ahmed"
AhmedRoster ==
    << << "D", "r", ".", " ", "Z", "e", "d", " ", "A", "h", "m", "e", "d" >>,
       << "D", "r", ".", " ", "B", "o", "b", " ", "A", "h", "m", "e", "d", "o", "v" >>,
       << "D", "r", ".", " ", "A", "m", "y", " ", "A", "h", "m", "e", "d" >>,
       << "D", "r", ".", " ", "C", "y", " ", "Y", "o", "u", "n", "g" >> >>

\* a roster with names in lower case and a hyphenated name
MixedRoster ==
    << << "a", "m", "y", " ", "a", "h", "m", "e", "d" >>,
       << "D", "r", ".", " ", "Z", "e", "d", " ", "A", "h", "m", "e", "d" >>,
       << "B", "o", " ", "A", "h", "m", "e", "d", "-", "K", "h", "a", "n" >> >>

Rosters == { DOCTORS, AhmedRoster, MixedRoster }

Fragments ==
    { << >>,
      << "a", "h", "m", "e", "d" >>,
      << "D", "r", " ", "A", "h", "m", "e", "d" >>,
      << "a", "h", "m" >>,
      << "a", "h" >>,
      << "m", "e", "d" >>,
      << "j", "e", "s", " ", "o", "u", "s", "e" >>,
      << "m", "a", "n", " ", "a", "h", "m", "e", "d" >>,
      << "g", "r", "e", "g", " ", "j", "e", "s" >>,
      << "h", "o", "u", "s", "e" >>,
      << "H", "O", "U", "S", "E", "." >>,
      << "d", "r" >>,
      << "d", "r", ".", " ", "h", "o", "u", "s", "e" >>,
      << "x", "y", "z" >>,
      << "j", "e", "s", "s", "a", "n", " ", "a", "h", "m", "m", "e", "d" >>,
      << "a", "h", "m", "e", "d", "o", "v" >>,
      << "z", "e", "d" >>,
      << "a", "m", "y" >>,
      << "k", "h", "a", "n", " ", "b", "o" >>,
      << "c", "y", " ", "y", "o", "u", "n", "g" >>,
      << "y", "o", "u", "n", "g", " ", "a", "h", "m", "e", "d" >>,
      << "D", "r", ".", " ", "G", "r", "e", "g", "o", "r", "y", " ", "H", "o", "u", "s", "e" >>,
      << "D", "r", ".", " ", "H", "a", "s", "a", "n", " ", "R", "a", "h", "m", "a", "n" >>,
      << "D", "r", ".", " ", "J", "e", "s", "a", "n", " ", "A", "h", "m", "e", "d" >>,
      << "D", "r", ".", " ", "A", "m", "y", " ", "A", "h", "m", "e", "d" >>,
      << "a", "m", "y", " ", "a", "h", "m", "e", "d" >>,
      << "h", "a", "s" >>,
      << "r", "a", "h", " ", "j", "e", "s" >>,
      << "b", "o" >>,
      << "a", "h", "m", "e", "d", "-", "k", "h", "a", "n" >> }

ResolverArgs ==
    { [fn |-> "choose_doctor", user_text |-> a[1], options |-> a[2]] :
        a \in Fragments \X Rosters }

InitResolver ==
    /\ Started
    /\ arg \in ResolverArgs
    /\ val = NoVal

Resolve ==
    /\ arg.fn = "choose_doctor"
    /\ val = NoVal
    /\ val' = [fn |-> "choose_doctor", out |-> choose_doctor(arg.user_text, arg.options)]
    /\ UNCHANGED << file, last, concVars, nluVars, arg >>

NextResolver == Resolve

SpecResolver == InitResolver /\ [][NextResolver]_vars

(***************************************************************************)
(* _overlaps and within_hours called on their own.                         *)
(***************************************************************************)
ClockTexts ==
    { << "0", "0", ":", "0", "0" >>,
      << "0", "0", ":", "3", "0" >>,
      << "0", "0", ":", "5", "9" >>,
      << "0", "1", ":", "0", "0" >>,
      << "1", "3", ":", "0", "0" >>,
      << "1", "3", ":", "5", "9" >>,
      << "1", "4", ":", "0", "0" >>,
      << "1", "4", ":", "5", "9" >>,
      << "1", "5", ":", "0", "0" >>,
      << "1", "5", ":", "0", "5" >>,
      << "2", "2", ":", "5", "9" >>,
      << "2", "3", ":", "0", "0" >>,
      << "2", "3", ":", "5", "9" >>,
      << "1", "5", ":", "5" >>,
      << "9", ":", "0", "0" >>,
      << "2", "4", ":", "0", "0" >>,
      << "1", "4", ":", "6", "0" >>,
      << "1", "4", "0", "0" >>,
      << " ", "1", "4", ":", "0", "0" >>,
      << "s", "o", "o", "n" >>,
      << >> }

OverlapsArgs ==
    { [fn |-> "_overlaps", t1 |-> a[1], t2 |-> a[2]] : a \in ClockTexts \X ClockTexts }

HoursArgs == { [fn |-> "within_hours", time_str |-> t] : t \in ClockTexts }

InitClock ==
    /\ Started
    /\ \/ arg \in OverlapsArgs
       \/ arg \in HoursArgs
    /\ val = NoVal

Overlaps ==
    /\ arg.fn = "_overlaps"
    /\ val = NoVal
    /\ val' = [fn |-> "_overlaps", out |-> _overlaps(arg.t1, arg.t2)]
    /\ UNCHANGED << file, last, concVars, nluVars, arg >>

WithinHours ==
    /\ arg.fn = "within_hours"
    /\ val = NoVal
    /\ val' = [fn |-> "within_hours", out |-> within_hours(arg.time_str)]
    /\ UNCHANGED << file, last, concVars, nluVars, arg >>

NextClock ==
    \/ Overlaps
    \/ WithinHours

SpecClock == InitClock /\ [][NextClock]_vars

(***************************************************************************)
(* slot_available called on its own, on ledgers that /book wrote.          *)
(***************************************************************************)
Row(date, time) ==
    [date |-> date, time |-> time, patient_name |-> << "a", "l" >>,
     service |-> << "x" >>, phone |-> << >>, status |-> Confirmed]

Day1 == << "2", "0", "2", "5", "-", "0", "3", "-", "0", "1" >>

Day2 == << "2", "0", "2", "5", "-", "0", "3", "-", "0", "2" >>

\* the rows of the first two sheets
JesanRows ==
    { << >>,
      << Row(Day1, << "1", "5", ":", "0", "0" >>) >>,
      << Row(Day2, << "1", "4", ":", "0", "0" >>) >>,
      << Row(Day1, << "1", "5", ":", "0", "0" >>), Row(Day2, << "1", "7", ":", "0", "0" >>) >>,
      << Row(Day1, << "1", "5", ":", "0", "0" >>), Row(Day1, << "1", "6", ":", "0", "0" >>) >> }

HasanRows ==
    { << >>,
      << Row(Day1, << "1", "4", ":", "3", "0" >>) >> }

Ledger(jesan, hasan) ==
    [ensure_workbook_with_doctors(NoFile) EXCEPT
        !.rows[DrJesanAhmed] = jesan, !.rows[DrHasanRahman] = hasan]

Ledgers == { Ledger(r[1], r[2]) : r \in JesanRows \X HasanRows }

AvailableArgs ==
    { [fn |-> "slot_available", doctor |-> a[1], date_str |-> a[2], time_str |-> a[3]] :
        a \in {DrJesanAhmed, DrHasanRahman, DrGregoryHouse,
               << "j", "e", "s", "a", "n" >>, << "D", "r", ".", " ", "W", "h", "o" >>}
              \X {Day1, Day2}
              \X { << "1", "4", ":", "0", "0" >>,
                 << "1", "4", ":", "0", "1" >>,
                 << "1", "4", ":", "3", "0" >>,
                 << "1", "5", ":", "5", "9" >>,
                 << "1", "6", ":", "0", "0" >>,
                 << "1", "6", ":", "5", "9" >>,
                 << "1", "7", ":", "0", "0" >>,
                 << "2", "3", ":", "5", "9" >> } }

InitAvailable ==
    /\ file \in Ledgers
    /\ Idle
    /\ arg \in AvailableArgs
    /\ val = NoVal

Available ==
    /\ arg.fn = "slot_available"
    /\ val = NoVal
    /\ val' = [fn |-> "slot_available",
               out |-> slot_available(file, arg.doctor, arg.date_str, arg.time_str)]
    /\ UNCHANGED << file, last, concVars, nluVars, arg >>

NextAvailable == Available

SpecAvailable == InitAvailable /\ [][NextAvailable]_vars

(***************************************************************************)
(* A dialogue with a caller who answers what is asked: on each /nlu turn   *)
(* the frontend sends the state of the last response and the extraction    *)
(* gives that state with a value for the slot the last prompt asked for    *)
(* (the greeting asks for the doctor).                                     *)
(***************************************************************************)
\* the values the caller gives; none is the empty string
SlotValues ==
    [doctor |-> Range(DOCTORS),
     name |-> { << "a", "l" >>, << "B", "o" >>, << "c", "y" >> },
     phone |-> { << "0", "1", "2", "3", "4", "5", "6", "7" >>, << "0", "1", "2", "3", "-", "4", "5", "6", "7" >> },
     service |-> { << "x" >>, << " " >>, << " ", " " >> },
     date_text |-> { << "f", "r", "i" >>, << " " >> },
     time_text |-> { << "5", "p", "m" >>, << "1", "7", ":", "0", "0" >> }]

\* the slots the prompt of a response asks for
PromptedSlots(reply) ==
    IF reply = NoReply THEN {"doctor"}
    ELSE { k \in Range(SlotOrder) : Prompt(Question[k]) = reply.next_question }

Answered(filled, slot, value) ==
    [kind |-> "ok", filled |-> [filled EXCEPT ![slot] = value],
     next_question |-> Prompt(ProposedQuestion), ready |-> FALSE]

DialogueTurn(slot, value) ==
    /\ ~ nlu_out.ready
    /\ slot \in PromptedSlots(nlu_out)
    /\ client' = nlu_out.filled
    /\ trusted' = TRUE
    /\ nlu_ext' = Answered(nlu_out.filled, slot, value)
    /\ nlu_out' = nlu(file, nlu_out.filled, Answered(nlu_out.filled, slot, value))
    /\ UNCHANGED << fnVars, file, last, concVars >>

NextDialogue ==
    \E slot \in Range(SlotOrder) : \E value \in SlotValues[slot] : DialogueTurn(slot, value)

\* the caller keeps answering
SpecDialogue == Init /\ [][NextDialogue]_vars /\ WF_vars(NextDialogue)

(***************************************************************************)
(* Properties.                                                             *)
(***************************************************************************)
\* minutes since midnight of a time "HH:MM" as the ledger stores it
ClockMinutes(t) ==
    (DigitVal(t[1]) * 10 + DigitVal(t[2])) * 60 + DigitVal(t[4]) * 10 + DigitVal(t[5])

Apart(t1, t2) == Abs(ClockMinutes(t1) - ClockMinutes(t2))

\* the provider a request names, and the date and time it asks for
AskedDoctor(body) == ResolveRaw(file, Strip(body.doctor))

AskedSlot(body) == normalize(Strip(body.date_text), Strip(body.time_text))

\* C1: two /book requests of the same provider and date, 10 minutes apart,
\* handled at the same time with no other row near them: exactly one is
\* booked and the other is answered 409, whatever the interleaving.
C1_ExactlyOneBooked ==
    (Len(done) = 2 /\ InFlight = { }) =>
        LET a == done[1]
            b == done[2]
        IN  ( /\ a.w # b.w
              /\ AskedDoctor(a.req).tag = "resolved"
              /\ AskedDoctor(a.req) = AskedDoctor(b.req)
              /\ AskedSlot(a.req).ok /\ AskedSlot(b.req).ok
              /\ AskedSlot(a.req).date = AskedSlot(b.req).date
              /\ Apart(AskedSlot(a.req).time, AskedSlot(b.req).time) = 10 )
            => \/ a.resp.ok /\ ~ b.resp.ok /\ b.resp.status = 409
               \/ b.resp.ok /\ ~ a.resp.ok /\ a.resp.status = 409

\* rows of one provider and one date start at least 60 minutes apart
RowsApart ==
    \A d \in DOMAIN file.rows :
        \A i, j \in DOMAIN file.rows[d] :
            (i # j /\ file.rows[d][i].date = file.rows[d][j].date)
                => Apart(file.rows[d][i].time, file.rows[d][j].time) >= 60

\* the request asks for a start less than 60 minutes from a row of f
NearRow(f, body) ==
    /\ AskedDoctor(body).tag = "resolved"
    /\ AskedSlot(body).ok
    /\ \E i \in DOMAIN f.rows[AskedDoctor(body).name] :
          /\ f.rows[AskedDoctor(body).name][i].date = AskedSlot(body).date
          /\ Apart(f.rows[AskedDoctor(body).name][i].time, AskedSlot(body).time) < 60

\* C2: with requests handled one after the other, no two rows of one
\* provider and date start less than 60 minutes apart, and a /book request
\* less than 60 minutes from an existing row of its provider and date is
\* rejected and adds no row.
C2_NoCloseRows ==
    /\ []RowsApart
    /\ [][(last = NoLast /\ last'.req.op = "book" /\ NearRow(file, last'.req))
            => (~ last'.resp.ok /\ file' = file)]_vars

C2_Witness ==
    /\ last.req.op = "book"
    /\ last.resp.status = 409
    /\ NearRow(file, last.req)
    /\ RowCount(file) = 1

\* C3: the ledger is append-only, under concurrent load and save too: a row
\* whose save was acknowledged is in the ledger from then on.
C3_AcknowledgedRowsStay ==
    \A i \in DOMAIN done :
        done[i].resp.ok =>
            book_row(done[i].req, done[i].resp) \in Range(file.rows[done[i].resp.doctor])

\* C4: /check answers with the reason of the first test that fails, in the
\* order ambiguous-doctor, unknown-doctor, bad-datetime, outside-hours,
\* overlap, whatever the later tests would say; 12:00 is answered
\* outside-hours whether or not the slot is free; Accepted exactly when all
\* five pass.
C4_FirstFailureWins ==
    last.req.op = "check" =>
        LET res == AskedDoctor(last.req)
            doc == CanonOrRaw(res, Strip(last.req.doctor))
            dt == AskedSlot(last.req)
            passes == << res.tag # "ambiguous",
                         doctor_exists(file, doc),
                         dt.ok,
                         dt.ok => within_hours(dt.time),
                         dt.ok => slot_available(file, doc, dt.date, dt.time) >>
            reasons == << "ambiguous-doctor", "unknown-doctor", "bad-datetime",
                          "outside-hours", "overlap" >>
            failing == { i \in 1..5 : ~ passes[i] }
        IN  /\ last.resp.ok <=> failing = { }
            /\ failing # { } =>
                  last.resp.reason = reasons[CHOOSE i \in failing : \A j \in failing : i <= j]
            /\ last.resp.ok =>
                  /\ last.resp.doctor = doc
                  /\ last.resp.date = dt.date
                  /\ last.resp.time = dt.time
            /\ (passes[1] /\ passes[2] /\ dt.ok /\ dt.time = << "1", "2", ":", "0", "0" >>)
                  => last.resp.reason = "outside-hours"

\* a /check before opening time for a slot that is also taken
C4_Witness ==
    /\ last.req.op = "check"
    /\ last.resp.reason = "outside-hours"
    /\ AskedDoctor(last.req).tag = "resolved"
    /\ ~ slot_available(file, AskedDoctor(last.req).name,
                        AskedSlot(last.req).date, AskedSlot(last.req).time)

\* C5: in every /nlu response the doctor is empty or a name of the
\* directory (never the raw fragment), and the phone is empty or digits
\* only, at least 8 of them.
C5_DoctorAndPhoneClean ==
    nlu_ext.kind # "none" =>
        /\ \/ nlu_out.filled.doctor = << >>
           \/ nlu_out.filled.doctor \in Range(list_doctors(file))
        /\ \/ nlu_out.filled.phone = << >>
           \/ AllDigits(nlu_out.filled.phone) /\ Len(nlu_out.filled.phone) >= 8

C5_Witness ==
    /\ nlu_ext.kind = "ok"
    /\ nlu_ext.filled.doctor = << "D", "r", " ", "A", "h", "m", "e", "d" >>
    /\ nlu_ext.filled.phone = << "0", "1", "2", "3", "-", "4", "5", "6", "7" >>
    /\ nlu_out.filled.doctor = DrJesanAhmed
    /\ nlu_out.filled.phone = << "0", "1", "2", "3", "4", "5", "6", "7" >>

\* the doctor and the phone of a returned state are valid
SlotsValid(filled) ==
    /\ filled.doctor \in Range(list_doctors(file))
    /\ AllDigits(filled.phone) /\ Len(filled.phone) >= 8

\* C6, as stated: ready is true exactly when the six slots of the returned
\* state are non-empty, the doctor is a directory name and the phone has at
\* least 8 digits; the extraction's flag never decides it.
C6_ReadyIffNonEmpty ==
    nlu_ext.kind # "none" =>
        (nlu_out.ready <=>
            /\ \A i \in DOMAIN SlotOrder : nlu_out.filled[SlotOrder[i]] # << >>
            /\ SlotsValid(nlu_out.filled))

\* C6, amended: ready is true exactly when the six slots of the returned
\* state are non-empty once whitespace is stripped, the doctor is a
\* directory name and the phone has at least 8 digits.
C6_ReadyIffNonBlank ==
    nlu_ext.kind # "none" =>
        (nlu_out.ready <=>
            /\ \A i \in DOMAIN SlotOrder : Strip(nlu_out.filled[SlotOrder[i]]) # << >>
            /\ SlotsValid(nlu_out.filled))

\* a turn whose extraction says not ready and whose response is ready
C6_Witness ==
    /\ nlu_ext.kind = "ok"
    /\ ~ nlu_ext.ready
    /\ nlu_out.ready

\* C7: when the extraction fails, the prompt is exactly "Sorry, could you
\* repeat that?" and ready is false.
C7_FailurePrompt ==
    nlu_ext.kind = "fail" =>
        /\ nlu_out.next_question = Prompt(SorryQuestion)
        /\ ~ nlu_out.ready

\* C8: a failed extraction on a state that an earlier turn returned gives
\* back the six slot values unchanged.
C8_FailureKeepsSlots ==
    (nlu_ext.kind = "fail" /\ trusted) => nlu_out.filled = client

C8_Witness ==
    /\ nlu_ext.kind = "fail"
    /\ trusted
    /\ client.doctor = DrJesanAhmed
    /\ client.name # << >>
    /\ client.phone # << >>
    /\ client.service # << >>
    /\ nlu_out.filled = client

\* the doctor text the turn works on: the extraction's, or the incoming one
TurnDoctor == IF nlu_ext.kind = "ok" THEN nlu_ext.filled.doctor ELSE client.doctor

\* neither doctor guard ends the turn
DoctorPasses == TurnDoctor = << >> \/ ResolveRaw(file, TurnDoctor).tag = "resolved"

\* C9: an extracted phone with fewer than 8 digits comes back empty, with
\* ready false and a prompt asking for a phone number of at least 8 digits,
\* whichever other slots are empty.
C9_ShortPhonePrompt ==
    ( /\ nlu_ext.kind = "ok"
      /\ nlu_ext.filled.phone # << >>
      /\ Len(OnlyDigits(nlu_ext.filled.phone)) < 8
      /\ DoctorPasses )
    => /\ nlu_out.filled.phone = << >>
       /\ ~ nlu_out.ready
       /\ nlu_out.next_question \in {PhoneReprompt, Prompt(Question.phone)}

\* the turn of the claim's example: an empty state and the fragment "Dr Ahmed"
AhmedTurn ==
    /\ nlu_ext.kind = "ok"
    /\ nlu_ext.filled = [EmptyState EXCEPT !.doctor = << "D", "r", " ", "A", "h", "m", "e", "d" >>]

AhmedReply ==
    /\ nlu_out.filled = [EmptyState EXCEPT !.doctor = DrJesanAhmed]
    /\ nlu_out.next_question = Prompt(Question.name)
    /\ ~ nlu_out.ready

\* C10, as stated: when no guard ends the turn, the prompt is the question
\* of the first empty slot of the returned state in the order doctor, name,
\* phone, service, date, time, and the confirmation with ready true when
\* none is empty; "Dr Ahmed" on an empty state gives the canonical name,
\* "What is your name?" and ready false.
C10_FirstEmptySlot ==
    (nlu_ext.kind # "none" /\ DoctorPasses) =>
        LET empty == { i \in DOMAIN SlotOrder : nlu_out.filled[SlotOrder[i]] = << >> }
        IN  /\ nlu_out.ready <=> empty = { }
            /\ empty = { } => nlu_out.next_question = Prompt(ConfirmQuestion)
            /\ \A i \in empty :
                  (\A j \in empty : i <= j)
                      => nlu_out.next_question = Prompt(Question[SlotOrder[i]])
            /\ AhmedTurn => AhmedReply

\* C10, amended: the same with a slot counted as empty when it is empty
\* once whitespace is stripped.
C10_FirstBlankSlot ==
    (nlu_ext.kind # "none" /\ DoctorPasses) =>
        LET blank == { i \in DOMAIN SlotOrder : Strip(nlu_out.filled[SlotOrder[i]]) = << >> }
        IN  /\ nlu_out.ready <=> blank = { }
            /\ blank = { } => nlu_out.next_question = Prompt(ConfirmQuestion)
            /\ \A i \in blank :
                  (\A j \in blank : i <= j)
                      => nlu_out.next_question = Prompt(Question[SlotOrder[i]])
            /\ AhmedTurn => AhmedReply

C10_Witness ==
    /\ AhmedTurn
    /\ nlu_ext.next_question # nlu_out.next_question
    /\ AhmedReply

\* p is the start of s
IsPrefix(p, s) == Len(p) <= Len(s) /\ \A i \in DOMAIN p : s[i] = p[i]

\* a comes before b in the order of the characters' code points
Before(a, b) ==
    \E k \in DOMAIN b :
        /\ \A i \in 1..(k - 1) : i <= Len(a) /\ a[i] = b[i]
        /\ \/ k = Len(a) + 1
           \/ k <= Len(a) /\ Ord(a[k]) < Ord(b[k])

\* the providers with a name token that starts with a fragment token of
\* three characters or more
Candidates(user_text, options) ==
    { d \in Range(options) :
        \E t \in Range(_tokens(user_text)) :
            /\ Len(t) >= 3
            /\ \E n \in Range(_tokens(d)) : IsPrefix(t, n) }

Lowest(S) == CHOOSE d \in S : \A e \in S \ {d} : Before(d, e)

\* C11: the resolver's candidates are the providers with a name token that
\* starts with a fragment token of at least 3 characters; one candidate is
\* Resolved, two or more are Ambiguous with the two lowest in lexical order.
C11_CandidatesDecide ==
    val.fn = "choose_doctor" =>
        LET cands == Candidates(arg.user_text, arg.options)
        IN  /\ Cardinality(cands) = 1 => val.out = Resolved(Lowest(cands))
            /\ Cardinality(cands) >= 2 =>
                  val.out = Ambiguous(<< Lowest(cands), Lowest(cands \ {Lowest(cands)}) >>)

\* "ahmed" on a roster where three names match
C11_Witness ==
    /\ val.fn = "choose_doctor"
    /\ arg.user_text = << "a", "h", "m", "e", "d" >>
    /\ Cardinality(Candidates(arg.user_text, arg.options)) = 3
    /\ val.out.tag = "ambiguous"
    /\ val.out.choices[1] = << "D", "r", ".", " ", "A", "m", "y", " ", "A", "h", "m", "e", "d" >>
    /\ val.out.choices[2] = << "D", "r", ".", " ", "B", "o", "b", " ", "A", "h", "m", "e", "d", "o", "v" >>

\* C12: every name of the directory resolves to itself, so a dialogue state
\* whose doctor is a directory name keeps that doctor when a later /nlu
\* turn resolves it again.  (The directory is the roster of excel_io.py.)
C12_CanonicalFixedPoint ==
    /\ \A i \in DOMAIN list_doctors(file) :
          ResolveRaw(file, list_doctors(file)[i]) = Resolved(list_doctors(file)[i])
    /\ (nlu_ext.kind # "none" /\ TurnDoctor \in Range(list_doctors(file)))
          => nlu_out.filled.doctor = TurnDoctor

\* a later turn on a state an earlier turn returned with a canonical doctor
C12_Witness ==
    /\ nlu_ext.kind # "none"
    /\ trusted
    /\ TurnDoctor = DrJesanAhmed
    /\ nlu_out.filled.doctor = DrJesanAhmed

\* a 24-hour time written HH:MM, two digits each
IsHHMM(t) ==
    /\ Len(t) = 5
    /\ t[3] = ":"
    /\ \A i \in {1, 2, 4, 5} : t[i] \in DigitChars
    /\ DigitVal(t[1]) * 10 + DigitVal(t[2]) <= 23
    /\ DigitVal(t[4]) <= 5

\* C13: for HH:MM times, _overlaps is true exactly when the two times are
\* less than 60 minutes apart; it is symmetric and reflexive, true at 59
\* minutes apart and false at 60.
C13_OverlapsUnderAnHour ==
    val.fn = "_overlaps" =>
        /\ val.out = _overlaps(arg.t2, arg.t1)
        /\ arg.t1 = arg.t2 => val.out
        /\ (IsHHMM(arg.t1) /\ IsHHMM(arg.t2)) =>
              /\ val.out <=> Apart(arg.t1, arg.t2) < 60
              /\ Apart(arg.t1, arg.t2) = 59 => val.out
              /\ Apart(arg.t1, arg.t2) = 60 => ~ val.out

\* two times exactly 60 minutes apart
C13_Witness ==
    /\ val.fn = "_overlaps"
    /\ IsHHMM(arg.t1) /\ IsHHMM(arg.t2)
    /\ Apart(arg.t1, arg.t2) = 60
    /\ ~ val.out

\* C15, as stated: within_hours is true exactly for the HH:MM times from
\* 14:00 to 23:59, both included; false for 13:59 and 00:30, true for 14:00
\* and 23:59; any string that is not an HH:MM time gives false.
C15_HoursOfHHMM ==
    val.fn = "within_hours" =>
        (val.out <=>
            /\ IsHHMM(arg.time_str)
            /\ ClockMinutes(arg.time_str) >= 14 * 60
            /\ ClockMinutes(arg.time_str) <= 23 * 60 + 59)

\* one or two digits
Field(s) == Len(s) \in {1, 2} /\ \A i \in DOMAIN s : s[i] \in DigitChars

FieldValue(s) ==
    IF Len(s) = 1 THEN DigitVal(s[1]) ELSE DigitVal(s[1]) * 10 + DigitVal(s[2])

\* t is hour ":" minute with one or two digits each, and m minutes of the day
ReadsAs(t, m) ==
    \E k \in {2, 3} :
        /\ k < Len(t)
        /\ t[k] = ":"
        /\ Field(SubSeq(t, 1, k - 1))
        /\ Field(SubSeq(t, k + 1, Len(t)))
        /\ FieldValue(SubSeq(t, 1, k - 1)) <= 23
        /\ FieldValue(SubSeq(t, k + 1, Len(t))) <= 59
        /\ m = FieldValue(SubSeq(t, 1, k - 1)) * 60 + FieldValue(SubSeq(t, k + 1, Len(t)))

\* C15, amended: within_hours is true exactly for the times from 14:00 to
\* 23:59, both included, where a time is hour ":" minute with one or two
\* digits each ("15:5" is read as 15:05); every other string gives false.
C15_HoursOfClockTime ==
    val.fn = "within_hours" =>
        /\ val.out <=> \E m \in (14 * 60)..(23 * 60 + 59) : ReadsAs(arg.time_str, m)
        /\ arg.time_str \in {<< "1", "3", ":", "5", "9" >>, << "0", "0", ":", "3", "0" >>} => ~ val.out
        /\ arg.time_str \in {<< "1", "4", ":", "0", "0" >>, << "2", "3", ":", "5", "9" >>} => val.out

\* the last minute of the day
C15_Witness ==
    /\ val.fn = "within_hours"
    /\ arg.time_str = << "2", "3", ":", "5", "9" >>
    /\ val.out

\* the ledger with only the rows of one provider and one date
OnlyRows(f, doctor, date_str) ==
    [f EXCEPT !.rows = [d \in DOMAIN f.rows |->
        IF d = doctor
        THEN SelectSeq(f.rows[d], LAMBDA r : r.date = date_str)
        ELSE << >>]]

\* C14: slot_available is true exactly when the provider has a sheet and no
\* row of that sheet with that date starts less than 60 minutes from the
\* requested time; rows of other providers and of other dates do not
\* count, and a provider without a sheet is never available.
C14_AvailableIffNoCloseRow ==
    val.fn = "slot_available" =>
        /\ val.out <=>
              /\ arg.doctor \in Range(file.sheetnames)
              /\ \A i \in DOMAIN file.rows[arg.doctor] :
                    file.rows[arg.doctor][i].date = arg.date_str
                        => Apart(file.rows[arg.doctor][i].time, arg.time_str) >= 60
        /\ val.out = slot_available(OnlyRows(file, arg.doctor, arg.date_str),
                                    arg.doctor, arg.date_str, arg.time_str)
        /\ arg.doctor \notin Range(file.sheetnames) => ~ val.out

\* a free slot while the same time is taken on another date and a close
\* time is taken with another provider
C14_Witness ==
    /\ val.fn = "slot_available"
    /\ val.out
    /\ arg.doctor = DrJesanAhmed
    /\ \E i \in DOMAIN file.rows[DrJesanAhmed] :
          /\ file.rows[DrJesanAhmed][i].date # arg.date_str
          /\ file.rows[DrJesanAhmed][i].time = arg.time_str
    /\ \E i \in DOMAIN file.rows[DrHasanRahman] :
          /\ file.rows[DrHasanRahman][i].date = arg.date_str
          /\ Apart(file.rows[DrHasanRahman][i].time, arg.time_str) < 60

\* the state the turn works on, and that state with name and phone sanitized
TurnState == IF nlu_ext.kind = "ok" THEN nlu_ext.filled ELSE client

Sanitized(st) == [st EXCEPT !.name = clean_name(@), !.phone = clean_phone(@)]

\* C16: when the doctor of the turn is ambiguous the response has the
\* doctor cleared, ready false and the prompt "Did you mean A or B?" with
\* the two candidates; when it is unresolved the doctor is cleared, ready
\* is false and the prompt lists the directory.  The other slots keep their
\* sanitized values and no first-empty-slot prompt is given.
C16_DoctorGuards ==
    (nlu_ext.kind # "none" /\ TurnDoctor # << >>) =>
        LET res == ResolveRaw(file, TurnDoctor)
            kept == [Sanitized(TurnState) EXCEPT !.doctor = << >>]
        IN  /\ res.tag = "ambiguous" =>
                  /\ nlu_out.filled = kept
                  /\ ~ nlu_out.ready
                  /\ Len(res.choices) = 2
                  /\ nlu_out.next_question =
                        [text |-> "Did you mean {} or {}?", names |-> res.choices]
            /\ res.tag = "none" =>
                  /\ nlu_out.filled = kept
                  /\ ~ nlu_out.ready
                  /\ nlu_out.next_question = NotInClinic(list_doctors(file))
                  /\ nlu_out.next_question.names = DOCTORS

\* an ambiguous doctor in a turn that also brings a name and a short phone
C16_Witness ==
    /\ nlu_ext.kind = "ok"
    /\ nlu_ext.filled.doctor = << "a", "h", "m", "e", "d", " ", "h", "a", "s", "a", "n" >>
    /\ nlu_ext.filled.name = << "a", "l", " ", "7" >>
    /\ nlu_ext.filled.phone = << "1", "2", " ", "3", "4" >>
    /\ nlu_out.filled.name = << "A", "l" >>
    /\ nlu_out.filled.phone = << >>
    /\ nlu_out.next_question = DidYouMean(<< DrHasanRahman, DrJesanAhmed >>)

\* C17: the directory is the startup roster after every /check and /book,
\* accepted or rejected: /book appends only to a sheet of the roster, so
\* append_booking never creates a sheet.  (/nlu only reads the workbook.)
C17_DirectoryStable ==
    /\ list_doctors(file) = DOCTORS
    /\ DOMAIN file.rows = Range(DOCTORS)
    /\ (last.req.op = "book" /\ last.resp.ok) => last.resp.doctor \in Range(DOCTORS)

\* a booking asked for with a fragment and written to the canonical sheet
C17_Witness ==
    /\ last.req.op = "book"
    /\ last.resp.ok
    /\ Strip(last.req.doctor) \notin Range(DOCTORS)
    /\ Len(file.rows[last.resp.doctor]) > 0
    /\ list_doctors(file) = DOCTORS

\* the sheets of g that have one row more than in f
Grown(f, g) == { d \in DOMAIN g.rows : d \in DOMAIN f.rows /\ Len(g.rows[d]) = Len(f.rows[d]) + 1 }

\* C18: /check answers ok exactly when /book, run next on the same ledger
\* with the same doctor, date_text and time_text, appends a row, and the
\* date and time /check returns are those of the row /book appends.
C18_CheckAgreesWithBook ==
    last.req.op = "check" =>
        LET after == book_file(file, last.req, book_validate(file, last.req))
        IN  /\ last.resp.ok <=> after # file
            /\ last.resp.ok <=> Cardinality(Grown(file, after)) = 1
            /\ last.resp.ok =>
                  \A d \in Grown(file, after) :
                      /\ d = last.resp.doctor
                      /\ after.rows[d][Len(after.rows[d])].date = last.resp.date
                      /\ after.rows[d][Len(after.rows[d])].time = last.resp.time

\* an accepted /check on a ledger that already has a row of that provider
C18_Witness ==
    /\ last.req.op = "check"
    /\ last.resp.ok
    /\ Len(file.rows[last.resp.doctor]) > 0
    /\ book_validate(file, last.req).ok

\* a row as /book may write it
RowValid(r) ==
    /\ IsHHMM(r.time)
    /\ ClockMinutes(r.time) >= 14 * 60
    /\ ClockMinutes(r.time) <= 23 * 60 + 59
    /\ r.status = << "c", "o", "n", "f", "i", "r", "m", "e", "d" >>
    /\ \/ r.phone = << >>
       \/ AllDigits(r.phone) /\ Len(r.phone) >= 8

RowsValid ==
    \A d \in DOMAIN file.rows :
        /\ d \in Range(DOCTORS)
        /\ \A i \in DOMAIN file.rows[d] : RowValid(file.rows[d][i])

\* C19: every row of the ledger is on the sheet of a directory name, has a
\* time from 14:00 to 23:59, status "confirmed" and a phone that is empty
\* or at least 8 digits and digits only; a rejected /book and every /check
\* leave the rows as they were.
C19_RowsValid ==
    /\ []RowsValid
    /\ [][(last = NoLast /\ last' # NoLast
            /\ (last'.req.op = "check" \/ ~ last'.resp.ok))
          => file' = file]_vars

\* a /book rejected on a ledger whose row was booked with a short phone
C19_Witness ==
    /\ last.req.op = "book"
    /\ ~ last.resp.ok
    /\ \E d \in DOMAIN file.rows :
          \E i \in DOMAIN file.rows[d] : file.rows[d][i].phone = << >>

\* the first k slots of the order
FirstSlots(k) == { SlotOrder[i] : i \in 1..k }

\* the slots of a state that are not empty, and those that are not blank
NonEmpty(filled) == { k \in Range(SlotOrder) : filled[k] # << >> }

NonBlank(filled) == { k \in Range(SlotOrder) : Strip(filled[k]) # << >> }

\* after a turn: the slots filled are the first k of the order, the prompt
\* asks for the next one, and with all six filled the response is ready
InOrder(filledSlots) ==
    \E k \in 0..Len(SlotOrder) :
        /\ filledSlots = FirstSlots(k)
        /\ nlu_out.ready <=> k = Len(SlotOrder)
        /\ k < Len(SlotOrder) => nlu_out.next_question = Prompt(Question[SlotOrder[k + 1]])
        /\ k = Len(SlotOrder) => nlu_out.next_question = Prompt(ConfirmQuestion)

\* C20, as stated: when each turn's extraction gives the current state and
\* a non-empty value for the slot just asked for, no filled slot is emptied
\* later, the prompts follow the order doctor, name, phone, service,
\* date_text, time_text, and the dialogue reaches ready.
C20_ProgressNonEmpty ==
    /\ [](nlu_ext.kind = "ok" =>
            /\ NonEmpty(client) \subseteq NonEmpty(nlu_out.filled)
            /\ InOrder(NonEmpty(nlu_out.filled)))
    /\ <>nlu_out.ready

\* a turn's extraction gave a value made of whitespace only
BlankGiven == NonBlank(nlu_ext.filled) # NonEmpty(nlu_ext.filled)

\* C20, amended: the same when the values given are not blank (not empty
\* once whitespace is stripped); a blank value leaves the slot asked for
\* again.
C20_ProgressNonBlank ==
    /\ [](nlu_ext.kind = "ok" =>
            /\ NonBlank(client) \subseteq NonBlank(nlu_out.filled)
            /\ InOrder(NonBlank(nlu_out.filled)))
    /\ <>(nlu_out.ready \/ BlankGiven)

\* the sixth answer has been given and the response is ready
C20_Witness ==
    /\ nlu_out.ready
    /\ nlu_ext.kind = "ok"
    /\ ~ BlankGiven
    /\ NonBlank(client) = FirstSlots(5)
    /\ NonBlank(nlu_out.filled) = FirstSlots(6)

====
